---- MODULE Spec2Model ----
(***************************************************************************)
(* Model of the learning-assistant session pipeline (src/agents.py):      *)
(* LearningAssistantAgents.orchestrate_learning_session with its four     *)
(* graph nodes, the three agent functions with their fallbacks, the       *)
(* persistence calls of src/database.py it uses, and parse_questions;     *)
(* the answer check of the Learn page (src/app.py) with save_quiz_result  *)
(* and update_progress, alone and called from several sessions at once;   *)
(* two orchestrate_learning_session calls running side by side; and the   *)
(* session state of one browser session across the pages of src/app.py.   *)
(* Texts are TLA+ strings; Len, \o, SubSeq, Head and Tail act on them as  *)
(* on Python str.                                                          *)
(***************************************************************************)
EXTENDS Integers, Sequences, FiniteSets, TLC

VARIABLES
    query,          \* argument query of orchestrate_learning_session
    user_profile,   \* argument user_profile (None when present = FALSE)
    vector_store,   \* utils.vector_store is not None
    learning_progress, \* rows of learning_progress of the user, last_practiced DESC
    user_id,        \* argument user_id
    pc,             \* position inside orchestrate_learning_session
    state,          \* the LearningState threaded through the graph
    exc,            \* message of the exception caught at agents.py:493
    result,         \* value returned to the caller
    learning_sessions, \* rows of table learning_sessions
    calls,          \* external calls made so far, in order
    executed,       \* graph nodes run so far, in order
    clock,          \* datetime.now(), advanced by every step
    questions_text, \* argument of parse_questions
    parsed,         \* value returned by parse_questions
    parse_pc,       \* position of the parse_questions caller
    user_answer,    \* text typed into the quiz answer input
    correct_answer, \* question_data['answer'] of the question being checked
    verdict,        \* is_correct computed by the Check Answer handler
    quiz_pc,        \* position of the Check Answer handler
    quiz_results,   \* rows of table quiz_results
    quiz_log,       \* save_quiz_result calls made so far, with the value returned
    workers,        \* concurrent update_progress calls: position and locals of each
    runs,           \* concurrent orchestrate_learning_session calls: locals of each
    session_state   \* st.session_state of one browser session

vars == <<query, user_id, user_profile, vector_store, learning_progress, pc,
          state, exc, result, learning_sessions, calls, executed, clock,
          questions_text, parsed, parse_pc, user_answer, correct_answer, verdict,
          quiz_pc, quiz_results, quiz_log, workers, runs, session_state>>

orch_vars == <<query, user_id, user_profile, vector_store, learning_progress,
               pc, state, exc, result, learning_sessions, calls, executed, clock>>

parse_vars == <<questions_text, parsed, parse_pc>>

\* the session variables that the quiz store never writes
session_vars ==
    <<query, user_id, user_profile, vector_store, pc, state, exc, result,
      learning_sessions, calls, executed>>

quiz_vars == <<user_answer, correct_answer, verdict, quiz_pc, quiz_results, quiz_log>>

conc_vars == <<workers, runs>>

ui_vars == <<session_state>>

----------------------------------------------------------------------------
(* Python str primitives *)

Min(a, b) == IF a <= b THEN a ELSE b

\* s[i] (1-based)
Ch(s, i) == SubSeq(s, i, i)

\* s[:n]
Take(s, n) == SubSeq(s, 1, Min(n, Len(s)))

\* s[n:]
Drop(s, n) == SubSeq(s, Min(n, Len(s)) + 1, Len(s))

\* s.startswith(p)
StartsWith(s, p) == Len(p) <= Len(s) /\ SubSeq(s, 1, Len(p)) = p

\* t in s
Contains(s, t) == \E i \in 0..(Len(s) - Len(t)) : SubSeq(s, i + 1, i + Len(t)) = t

\* s.count(c) for a one-character c
Count(s, c) == Cardinality({i \in 1..Len(s) : Ch(s, i) = c})

UpperLetters == "ABCDEFGHIJKLMNOPQRSTUVWXYZ"
LowerLetters == "abcdefghijklmnopqrstuvwxyz"

LowerCh(c) ==
    IF \E i \in 1..26 : Ch(UpperLetters, i) = c
    THEN Ch(LowerLetters, CHOOSE i \in 1..26 : Ch(UpperLetters, i) = c)
    ELSE c

\* s.lower()
RECURSIVE Lower(_)
Lower(s) == IF s = "" THEN "" ELSE LowerCh(Head(s)) \o Lower(Tail(s))

\* sep.join(xs)
RECURSIVE Join(_, _)
Join(sep, xs) ==
    IF xs = <<>> THEN ""
    ELSE IF Len(xs) = 1 THEN xs[1]
    ELSE xs[1] \o sep \o Join(sep, Tail(xs))

----------------------------------------------------------------------------
(* Inputs and outcomes of the external calls *)

\* number of documents the material index may hold
MaxDocs == 4

\* error-detail truncation of the fallbacks, str(e)[:100]
ErrDetailLen == 100

\* prompt-size truncation of the explanation, explanation[:1000]
ExplanationLimit == 1000

\* k of vector_store.search_materials(state['query'], k=3)
SearchK == 3

\* available_resources[:5]
ResourceLimit == 5

\* r.page_content[:100]
ContentPreviewLen == 100

\* topic_proficiency = 50  # Default
DefaultProficiency == 50

\* num_questions=3
NumQuestions == 3

Digits10 == "0123456789"

\* an error message of 102 characters: only its first 100 survive str(e)[:100]
LongErr ==
    Digits10 \o Digits10 \o Digits10 \o Digits10 \o Digits10 \o
    Digits10 \o Digits10 \o Digits10 \o Digits10 \o Digits10 \o "XY"

ErrMsgs == {"boom", LongErr}

GenTexts == {"", "Q1: What is a Queue?\nAnswer: FIFO"}

\* outcome of a chain.invoke / of a raising call: returned text or raised message
Returned(v) == [raised |-> FALSE, val |-> v]
Raised(m) == [raised |-> TRUE, val |-> m]

GenOutcomes == {Returned(t) : t \in GenTexts} \cup {Raised(m) : m \in ErrMsgs}

Queries == {"python loops", "What is a Queue?"}

NoProfile ==
    [present |-> FALSE, learning_style |-> "", knowledge_level |-> "", interests |-> <<>>]

Profiles ==
    { NoProfile,
      [present |-> TRUE, learning_style |-> "visual", knowledge_level |-> "beginner",
       interests |-> <<>>],
      [present |-> TRUE, learning_style |-> "auditory", knowledge_level |-> "intermediate",
       interests |-> <<"machine learning", "ai">>] }

UserIds == {1, 2}

\* rows of table learning_progress, in rowid order
ProgressRow(u, t, a, c, p, lp) ==
    [user_id |-> u, topic |-> t, questions_attempted |-> a, questions_correct |-> c,
     proficiency_score |-> p, last_practiced |-> lp]

ProgressTables ==
    { <<>>,
      <<ProgressRow(1, "Python", 5, 4, 80, 3)>>,
      <<ProgressRow(1, "Loops", 10, 3, 30, 1),
        ProgressRow(2, "Queue", 1, 0, 0, 2),
        ProgressRow(1, "python", 2, 2, 100, 4),
        ProgressRow(2, "What", 3, 2, 66, 5),
        ProgressRow(1, "Java", 1, 1, 100, 6)>> }

\* the ranked documents of the index: metadata topic (when set) and page_content
RankedDocs ==
    << [has_topic |-> TRUE, topic |-> "Python Basics", page_content |-> LongErr],
       [has_topic |-> FALSE, topic |-> "", page_content |-> "Pandas DataFrame"],
       [has_topic |-> TRUE, topic |-> "Machine Learning", page_content |-> ""],
       [has_topic |-> TRUE, topic |-> "Web Development", page_content |-> "HTML"],
       [has_topic |-> TRUE, topic |-> "Data Science", page_content |-> "NumPy"] >>

\* AttributeError raised by user_profile.get when user_profile is None
NoneGetErr == "'NoneType' object has no attribute 'get'"

----------------------------------------------------------------------------
(* Fallback payloads of the three agents *)

\* the fallback explanation embedding the whole error message
ExplanationFallback_untruncated(q, e) ==
    "## Explanation for: " \o q \o "\n\nSorry, I encountered an error while generating the explanation. \n\nError details: "
    \o e \o "...\n"

ExplanationFallback(q, e) ==
    "## Explanation for: " \o q \o
    "\n\nSorry, I encountered an error while generating the explanation. \n\n**Key Points:**\n- Please try again with a more specific query\n- Make sure your API keys are properly configured\n- You can also try rephrasing your question\n\n**Example Query Format:**\n- \"Explain neural networks for beginners\"\n- \"What is Python programming?\"\n- \"How do quantum computers work?\"\n\nError details: "
    \o Take(e, ErrDetailLen) \o "...\n"

QuestionsFallback(topic, e) ==
    "## Practice Questions for: " \o topic \o
    "\n\nQ1: What are the key concepts you learned about " \o topic \o
    "?\n\nAnswer: [Your answer here]\nExplanation: This question helps you recall the main points from the explanation.\n\nQ2: Can you provide a real-world example of "
    \o topic \o
    "?\n\nAnswer: [Your example here]\nExplanation: Applying concepts to real-world scenarios improves understanding.\n\nQ3: What would you like to learn next about "
    \o topic \o
    "?\n\nAnswer: [Your thoughts here]\nExplanation: Identifying next steps helps guide your learning journey.\n\nNote: Error occurred while generating questions: "
    \o Take(e, 100) \o "\n"

LearningPathFallback(current_topic, e) ==
    "## Learning Path: " \o current_topic \o
    "\n\n### Current Level Assessment\nStarting your learning journey on this topic.\n\n### Recommended Learning Approach:\n1. **Start with Basics**: Understand fundamental concepts\n2. **Practice Regularly**: Apply what you learn through exercises\n3. **Build Projects**: Create small projects to reinforce learning\n4. **Review and Reflect**: Regularly review what you've learned\n\n### Week-by-Week Plan:\n- Week 1: Learn basic concepts and terminology\n- Week 2: Practice with simple examples\n- Week 3: Build a small project or complete exercises\n- Week 4: Review and explore advanced topics\n\n### Success Metrics:\n- Complete basic understanding of concepts\n- Successfully complete practice exercises\n- Build at least one small project\n\n### Estimated Completion: 4 weeks\n\nNote: Error occurred while generating detailed path: "
    \o Take(e, 100) \o "\n"

QuestionsErrorText == "Error generating questions. Please try again."
LearningPathErrorText == "Error generating learning path."

----------------------------------------------------------------------------
(* The three agents.  Each takes the outcome `out` of its chain.invoke and *)
(* yields Returned(text) or Raised(message); `called` tells whether the    *)
(* chain was reached (the prompt variables are evaluated first).           *)

\* the chain is invoked only if building its variables did not raise
explain_concept_called(profile) == profile.present

explain_concept_vars(q, profile) ==
    [query |-> q, learning_style |-> profile.learning_style,
     knowledge_level |-> profile.knowledge_level,
     interests |-> Join(", ", profile.interests)]

\* explain_concept without its try/except
explain_concept_uncaught(q, profile, out) ==
    IF ~profile.present THEN Raised(NoneGetErr)
    ELSE IF out.raised THEN Raised(out.val)
    ELSE Returned(out.val)

explain_concept(q, profile, out) ==
    IF ~profile.present THEN Returned(ExplanationFallback(q, NoneGetErr))
    ELSE IF out.raised THEN Returned(ExplanationFallback(q, out.val))
    ELSE Returned(out.val)

generate_questions_vars(topic, explanation, proficiency_level, num_questions) ==
    [topic |-> topic, explanation |-> Take(explanation, ExplanationLimit),
     proficiency_level |-> proficiency_level, num_questions |-> num_questions]

\* generate_questions without its try/except
generate_questions_uncaught(topic, explanation, proficiency_level, num_questions, out) ==
    IF out.raised THEN Raised(out.val) ELSE Returned(out.val)

generate_questions(topic, explanation, proficiency_level, num_questions, out) ==
    IF out.raised THEN Returned(QuestionsFallback(topic, out.val))
    ELSE Returned(out.val)

recommend_learning_path_called(profile) == profile.present

recommend_learning_path_vars(current_topic, profile, progress_summary, available_resources) ==
    [current_topic |-> current_topic, knowledge_level |-> profile.knowledge_level,
     learning_style |-> profile.learning_style,
     interests |-> Join(", ", profile.interests),
     progress_summary |-> progress_summary,
     available_resources |->
        Join("\n", SubSeq(available_resources, 1,
                          Min(ResourceLimit, Len(available_resources))))]

recommend_learning_path(current_topic, profile, progress_summary, available_resources, out) ==
    IF ~profile.present THEN Returned(LearningPathFallback(current_topic, NoneGetErr))
    ELSE IF out.raised THEN Returned(LearningPathFallback(current_topic, out.val))
    ELSE Returned(out.val)

----------------------------------------------------------------------------
(* Collaborators: src/database.py and src/utils.py.  `db_ok` / `index_ok`  *)
(* say whether the underlying sqlite / index operation succeeded.          *)

\* rows ordered by last_practiced DESC (insertion into a sorted list)
RECURSIVE InsertByLastPracticed(_, _)
InsertByLastPracticed(row, sorted) ==
    IF sorted = <<>> THEN <<row>>
    ELSE IF row.last_practiced > Head(sorted).last_practiced THEN <<row>> \o sorted
    ELSE <<Head(sorted)>> \o InsertByLastPracticed(row, Tail(sorted))

RECURSIVE OrderByLastPracticedDesc(_)
OrderByLastPracticedDesc(rows) ==
    IF rows = <<>> THEN <<>>
    ELSE InsertByLastPracticed(rows[Len(rows)],
                               OrderByLastPracticedDesc(SubSeq(rows, 1, Len(rows) - 1)))

RECURSIVE RowsOfUser(_, _)
RowsOfUser(rows, u) ==
    IF rows = <<>> THEN <<>>
    ELSE IF Head(rows).user_id = u THEN <<Head(rows)>> \o RowsOfUser(Tail(rows), u)
    ELSE RowsOfUser(Tail(rows), u)

\* DatabaseManager.get_user_progress: [] when the query fails
get_user_progress(table, u, db_ok) ==
    IF db_ok THEN OrderByLastPracticedDesc(RowsOfUser(table, u)) ELSE <<>>

\* DatabaseManager.save_learning_session: the new table and the value returned
save_learning_session(table, u, topic, subtopic, session_data, now, db_ok) ==
    IF db_ok
    THEN [ret |-> TRUE,
          table |-> Append(table, [user_id |-> u, topic |-> topic, subtopic |-> subtopic,
                                   session_data |-> session_data, created_at |-> now])]
    ELSE [ret |-> FALSE, table |-> table]

\* VectorStoreManager.search_materials without filters: [] when the search fails
search_materials(q, k, n_docs, index_ok) ==
    IF index_ok THEN Returned(SubSeq(RankedDocs, 1, Min(k, n_docs))) ELSE Returned(<<>>)

----------------------------------------------------------------------------
(* The four graph nodes *)

\* for item in progress: if item['topic'].lower() in state['query'].lower(): ... break
RECURSIVE topic_proficiency(_, _)
\* the loop without its break: the last matching record wins
topic_proficiency_last_match(progress, q) ==
    LET matches == SelectSeq(progress,
                             LAMBDA item : Contains(Lower(q), Lower(item.topic)))
    IN  IF matches = <<>> THEN DefaultProficiency
        ELSE matches[Len(matches)].proficiency_score

topic_proficiency(progress, q) ==
    IF progress = <<>> THEN DefaultProficiency
    ELSE IF Contains(Lower(q), Lower(Head(progress).topic))
         THEN Head(progress).proficiency_score
         ELSE topic_proficiency(Tail(progress), q)

\* f"{r.metadata.get('topic', 'Resource')}: {r.page_content[:100]}..."
ResourceLine(r) ==
    (IF r.has_topic THEN r.topic ELSE "Resource") \o ": "
        \o Take(r.page_content, ContentPreviewLen) \o "..."

\* the resources list without `if not resources`
path_resources_no_placeholder(store_present, sr) ==
    IF ~store_present THEN <<>>
    ELSE IF sr.raised THEN <<"Sample resources for learning">>
    ELSE [i \in 1..Len(sr.val) |-> ResourceLine(sr.val[i])]

\* the resources list built by generate_learning_path from the search outcome
path_resources(store_present, sr) ==
    LET found == IF ~store_present THEN <<>>
                 ELSE IF sr.raised THEN <<"Sample resources for learning">>
                 ELSE [i \in 1..Len(sr.val) |-> ResourceLine(sr.val[i])]
    IN  IF found = <<>>
        THEN <<"Basic learning materials", "Online tutorials", "Practice exercises">>
        ELSE found

ProgressSummaryText == "Starting new learning topic"

generate_explanation(st, out) ==
    LET r == explain_concept(st.query, st.user_profile, out)
    IN  IF r.raised THEN r ELSE Returned([st EXCEPT !.explanation = r.val])

\* a node that returns a fresh state holding only its own field
generate_practice_questions_drops_explanation(st, progress, out) ==
    LET r == generate_questions(st.query, st.explanation,
                                topic_proficiency(progress, st.query), NumQuestions, out)
    IN  IF r.raised THEN r
        ELSE Returned([st EXCEPT !.questions = r.val, !.explanation = ""])

generate_practice_questions(st, progress, out) ==
    LET r == generate_questions(st.query, st.explanation,
                                topic_proficiency(progress, st.query), NumQuestions, out)
    IN  IF r.raised THEN r ELSE Returned([st EXCEPT !.questions = r.val])

generate_learning_path(st, store_present, sr, out) ==
    LET r == recommend_learning_path(st.query, st.user_profile, ProgressSummaryText,
                                     path_resources(store_present, sr), out)
    IN  IF r.raised THEN r ELSE Returned([st EXCEPT !.learning_path = r.val])

\* a summary that reports the number of questions asked for
create_session_summary_requested_count(st, now) ==
    IF ~st.user_profile.present THEN Raised(NoneGetErr)
    ELSE Returned([st EXCEPT !.session_summary =
            [query |-> st.query,
             explanation_length |-> Len(st.explanation),
             questions_generated |-> NumQuestions,
             has_learning_path |-> st.learning_path # "",
             timestamp |-> now,
             user_profile |-> [learning_style |-> st.user_profile.learning_style,
                               knowledge_level |-> st.user_profile.knowledge_level]]])

create_session_summary(st, now) ==
    IF ~st.user_profile.present THEN Raised(NoneGetErr)
    ELSE Returned([st EXCEPT !.session_summary =
            [query |-> st.query,
             explanation_length |-> Len(st.explanation),
             questions_generated |-> Count(st.questions, "Q"),
             has_learning_path |-> st.learning_path # "",
             timestamp |-> now,
             user_profile |-> [learning_style |-> st.user_profile.learning_style,
                               knowledge_level |-> st.user_profile.knowledge_level]]])

\* a handler that forgets the query in the error summary
fallback_result_no_query(q, explanation, e) ==
    [explanation |-> explanation,
     questions |-> QuestionsErrorText,
     learning_path |-> LearningPathErrorText,
     session_summary |-> [error |-> e]]

\* the value returned by the handler at agents.py:493
fallback_result(q, explanation, e) ==
    [explanation |-> explanation,
     questions |-> QuestionsErrorText,
     learning_path |-> LearningPathErrorText,
     session_summary |-> [error |-> e, query |-> q]]

----------------------------------------------------------------------------
(* orchestrate_learning_session *)

\* {} and None
EmptyDict == <<>>
NoResult == <<>>

initial_state(q, u, profile) ==
    [query |-> q, user_id |-> u, user_profile |-> profile, explanation |-> "",
     questions |-> "", learning_path |-> "", session_summary |-> EmptyDict]

\* nothing typed, checked or running concurrently
QuizIdle ==
    /\ user_answer = ""
    /\ correct_answer = ""
    /\ verdict = FALSE
    /\ quiz_pc = "idle"
    /\ quiz_results = <<>>
    /\ quiz_log = <<>>

ConcIdle ==
    /\ workers = <<>>
    /\ runs = <<>>

\* init_session_state: the defaults, None written "" and the user logged in
init_session_state ==
    [current_topic |-> "", current_explanation |-> "", current_questions |-> "",
     current_learning_path |-> "", parsed_questions |-> <<>>,
     menu_selection |-> "Home"]

Init ==
    /\ query \in Queries
    /\ user_id \in UserIds
    /\ user_profile \in Profiles
    /\ vector_store \in BOOLEAN
    /\ learning_progress \in ProgressTables
    /\ pc = "explainer"
    /\ state = initial_state(query, user_id, user_profile)
    /\ exc = ""
    /\ result = NoResult
    /\ learning_sessions = <<>>
    /\ calls = <<>>
    /\ executed = <<>>
    /\ clock = 0
    /\ questions_text = ""
    /\ parsed = <<>>
    /\ parse_pc = "idle"
    /\ QuizIdle
    /\ ConcIdle
    /\ session_state = init_session_state

\* a node that raised leaves app.invoke for the handler; otherwise the next node runs
NodeStep(node, r, next_pc, new_calls) ==
    /\ executed' = Append(executed, node)
    /\ calls' = calls \o new_calls
    /\ clock' = clock + 1
    /\ IF r.raised
       THEN pc' = "except" /\ exc' = r.val /\ UNCHANGED state
       ELSE pc' = next_pc /\ state' = r.val /\ UNCHANGED exc
    /\ UNCHANGED <<query, user_id, user_profile, vector_store, learning_progress,
                   result, learning_sessions, parse_vars, ui_vars, quiz_vars, conc_vars>>

explainer ==
    /\ pc = "explainer"
    /\ \E out \in GenOutcomes :
         NodeStep("explainer", generate_explanation(state, out), "question_generator",
                  IF explain_concept_called(state.user_profile)
                  THEN <<[port |-> "explanation",
                          vars |-> explain_concept_vars(state.query, state.user_profile),
                          out |-> out]>>
                  ELSE <<>>)

\* an edge from question_generator straight to summary
question_generator_skips_path ==
    /\ pc = "question_generator"
    /\ \E db_ok \in BOOLEAN, out \in GenOutcomes :
         LET progress == get_user_progress(learning_progress, state.user_id, db_ok)
         IN  NodeStep("question_generator",
                      generate_practice_questions(state, progress, out),
                      "summary",
                      <<[port |-> "get_user_progress", user_id |-> state.user_id,
                         out |-> progress],
                        [port |-> "questions",
                         vars |-> generate_questions_vars(state.query, state.explanation,
                                     topic_proficiency(progress, state.query), NumQuestions),
                         out |-> out]>>)

question_generator ==
    /\ pc = "question_generator"
    /\ \E db_ok \in BOOLEAN, out \in GenOutcomes :
         LET progress == get_user_progress(learning_progress, state.user_id, db_ok)
         IN  NodeStep("question_generator",
                      generate_practice_questions(state, progress, out),
                      "path_recommender",
                      <<[port |-> "get_user_progress", user_id |-> state.user_id,
                         out |-> progress],
                        [port |-> "questions",
                         vars |-> generate_questions_vars(state.query, state.explanation,
                                     topic_proficiency(progress, state.query), NumQuestions),
                         out |-> out]>>)

path_recommender ==
    /\ pc = "path_recommender"
    /\ \E index_ok \in BOOLEAN, n_docs \in 0..MaxDocs, out \in GenOutcomes :
         LET sr == search_materials(state.query, SearchK, n_docs, index_ok)
             resources == path_resources(vector_store, sr)
         IN  NodeStep("path_recommender",
                      generate_learning_path(state, vector_store, sr, out),
                      "summary",
                      (IF vector_store
                       THEN <<[port |-> "search_materials", query |-> state.query,
                               k |-> SearchK, ok |-> index_ok, out |-> sr.val]>>
                       ELSE <<>>) \o
                      (IF recommend_learning_path_called(state.user_profile)
                       THEN <<[port |-> "path",
                               vars |-> recommend_learning_path_vars(state.query,
                                           state.user_profile, ProgressSummaryText, resources),
                               out |-> out]>>
                       ELSE <<>>))

summary ==
    /\ pc = "summary"
    /\ NodeStep("summary", create_session_summary(state, clock), "save", <<>>)

\* saving initial_state['session_summary'] instead of result['session_summary']
save_initial_summary ==
    /\ pc = "save"
    /\ \E db_ok \in BOOLEAN :
         LET w == save_learning_session(learning_sessions, user_id, query, "General",
                                        EmptyDict, clock, db_ok)
         IN  /\ learning_sessions' = w.table
             /\ calls' = Append(calls, [port |-> "save_learning_session",
                                        user_id |-> user_id, topic |-> query,
                                        session_data |-> EmptyDict,
                                        out |-> w.ret])
    /\ result' = state
    /\ pc' = "done"
    /\ clock' = clock + 1
    /\ UNCHANGED <<query, user_id, user_profile, vector_store, learning_progress,
                   state, exc, executed, parse_vars, ui_vars, quiz_vars, conc_vars>>

\* db.save_learning_session(...) ; return result
save ==
    /\ pc = "save"
    /\ \E db_ok \in BOOLEAN :
         LET w == save_learning_session(learning_sessions, user_id, query, "General",
                                        state.session_summary, clock, db_ok)
         IN  /\ learning_sessions' = w.table
             /\ calls' = Append(calls, [port |-> "save_learning_session",
                                        user_id |-> user_id, topic |-> query,
                                        session_data |-> state.session_summary,
                                        out |-> w.ret])
    /\ result' = state
    /\ pc' = "done"
    /\ clock' = clock + 1
    /\ UNCHANGED <<query, user_id, user_profile, vector_store, learning_progress,
                   state, exc, executed, parse_vars, ui_vars, quiz_vars, conc_vars>>

\* except Exception as e: return the fallback result
except ==
    /\ pc = "except"
    /\ \E out \in GenOutcomes :
         LET r == explain_concept(query, user_profile, out)
         IN  /\ calls' = IF explain_concept_called(user_profile)
                         THEN Append(calls, [port |-> "explanation",
                                             vars |-> explain_concept_vars(query, user_profile),
                                             out |-> out])
                         ELSE calls
             /\ IF r.raised
                THEN pc' = "raised" /\ exc' = r.val /\ UNCHANGED result
                ELSE /\ pc' = "done"
                     /\ result' = fallback_result(query, r.val, exc)
                     /\ UNCHANGED exc
    /\ clock' = clock + 1
    /\ UNCHANGED <<query, user_id, user_profile, vector_store, learning_progress,
                   state, learning_sessions, executed, parse_vars, ui_vars, quiz_vars, conc_vars>>

Next ==
    \/ explainer
    \/ question_generator
    \/ path_recommender
    \/ summary
    \/ save
    \/ except

Spec == Init /\ [][Next]_vars

\* the session runs on one thread: the step it is at is always taken
FairSpec == Spec /\ WF_vars(Next)

----------------------------------------------------------------------------
(* parse_questions *)

\* number of lines of the texts handed to parse_questions
MaxLines == 3

\* characters removed by str.strip()
IsSpace(c) == c \in {" ", "\t", "\n", "\r", "\f"}

IsDigit(c) == c \in {"0", "1", "2", "3", "4", "5", "6", "7", "8", "9"}

RECURSIVE LStrip(_)
LStrip(s) == IF s # "" /\ IsSpace(Head(s)) THEN LStrip(Tail(s)) ELSE s

RECURSIVE RStrip(_)
RStrip(s) ==
    IF s # "" /\ IsSpace(Ch(s, Len(s))) THEN RStrip(SubSeq(s, 1, Len(s) - 1)) ELSE s

\* s.strip()
Strip(s) == RStrip(LStrip(s))

\* s.split('\n')
RECURSIVE SplitLines(_)
SplitLines(s) ==
    IF \E i \in 1..Len(s) : Ch(s, i) = "\n"
    THEN LET k == CHOOSE i \in 1..Len(s) :
                      Ch(s, i) = "\n" /\ \A j \in 1..(i - 1) : Ch(s, j) # "\n"
         IN  <<SubSeq(s, 1, k - 1)>> \o SplitLines(SubSeq(s, k + 1, Len(s)))
    ELSE <<s>>

\* s.replace(old, '')
RECURSIVE RemoveAll(_, _)
RemoveAll(s, old) ==
    IF ~Contains(s, old) THEN s
    ELSE LET k == CHOOSE i \in 0..(Len(s) - Len(old)) :
                      /\ SubSeq(s, i + 1, i + Len(old)) = old
                      /\ \A j \in 0..(i - 1) : SubSeq(s, j + 1, j + Len(old)) # old
         IN  Take(s, k) \o RemoveAll(Drop(s, k + Len(old)), old)

\* number of digits at the start of s
RECURSIVE DigitRun(_)
DigitRun(s) == IF s # "" /\ IsDigit(Head(s)) THEN 1 + DigitRun(Tail(s)) ELSE 0

\* re.match(prefix \d+ closing, s) for a literal prefix and a one-character closing
MatchNumbered(s, prefix, closing) ==
    /\ StartsWith(s, prefix)
    /\ LET rest == Drop(s, Len(prefix))
           n == DigitRun(rest)
       IN  n >= 1 /\ Len(rest) > n /\ Ch(rest, n + 1) = closing

\* re.match(r'^Q\d+:') or re.match(r'^Question \d+:') or re.match(r'^\d+\.')
IsQuestionStart(line) ==
    \/ MatchNumbered(line, "Q", ":")
    \/ MatchNumbered(line, "Question ", ":")
    \/ MatchNumbered(line, "", ".")

\* re.match(r'^[A-D]\)')
IsOption(line) == Len(line) >= 2 /\ Ch(line, 1) \in {"A", "B", "C", "D"} /\ Ch(line, 2) = ")"

NoQuestion == [present |-> FALSE, question |-> "", options |-> <<>>, answer |-> "",
               explanation |-> ""]

NewQuestion(line) == [present |-> TRUE, question |-> line, options |-> <<>>, answer |-> "",
                      explanation |-> ""]

\* the dict appended to questions
QuestionRecord(cq) == [question |-> cq.question, options |-> cq.options,
                       answer |-> cq.answer, explanation |-> cq.explanation]

SyntheticQuestion ==
    [question |-> "What did you learn about this topic?",
     options |-> <<>>,
     answer |-> "Reflect on the key concepts explained above.",
     explanation |-> "This question helps reinforce your learning through reflection."]

ParserStart == [questions |-> <<>>, current_question |-> NoQuestion,
                collecting_explanation |-> FALSE, explanation_lines |-> <<>>]

\* current_question with the buffered explanation attached, as appended to questions
Flushed(ps) ==
    QuestionRecord(IF ps.explanation_lines # <<>>
                   THEN [ps.current_question EXCEPT
                            !.explanation = Join(" ", ps.explanation_lines)]
                   ELSE ps.current_question)

\* an iteration in which a blank line closes the question being accumulated
ParseLine_blank_closes_question(ps, raw) ==
    LET line == Strip(raw)
        cq == ps.current_question
    IN  IF line = "" THEN
            IF cq.present
            THEN [questions |-> Append(ps.questions, Flushed(ps)),
                  current_question |-> NoQuestion,
                  collecting_explanation |-> FALSE,
                  explanation_lines |-> <<>>]
            ELSE ps
        ELSE IF IsQuestionStart(line) THEN
            IF cq.present
            THEN [questions |-> Append(ps.questions, Flushed(ps)),
                  current_question |-> NewQuestion(line),
                  collecting_explanation |-> FALSE,
                  explanation_lines |-> <<>>]
            ELSE [ps EXCEPT !.current_question = NewQuestion(line)]
        ELSE IF cq.present /\ IsOption(line) THEN
            [ps EXCEPT !.current_question.options = Append(cq.options, line)]
        ELSE IF StartsWith(line, "Answer:") THEN
            IF cq.present
            THEN [ps EXCEPT !.current_question.answer = Strip(RemoveAll(line, "Answer:"))]
            ELSE ps
        ELSE IF StartsWith(line, "Explanation:") THEN
            [ps EXCEPT !.collecting_explanation = TRUE,
                       !.explanation_lines = <<Strip(RemoveAll(line, "Explanation:"))>>]
        ELSE IF ps.collecting_explanation /\ cq.present THEN
            [ps EXCEPT !.explanation_lines = Append(ps.explanation_lines, line)]
        ELSE ps

\* one iteration of the while loop, on lines[i]
ParseLine(ps, raw) ==
    LET line == Strip(raw)
        cq == ps.current_question
    IN  IF line = "" /\ ~cq.present THEN ps
        ELSE IF IsQuestionStart(line) THEN
            IF cq.present
            THEN [questions |-> Append(ps.questions, Flushed(ps)),
                  current_question |-> NewQuestion(line),
                  collecting_explanation |-> FALSE,
                  explanation_lines |-> <<>>]
            ELSE [ps EXCEPT !.current_question = NewQuestion(line)]
        ELSE IF line # "" /\ cq.present /\ IsOption(line) THEN
            [ps EXCEPT !.current_question.options = Append(cq.options, line)]
        ELSE IF StartsWith(line, "Answer:") THEN
            IF cq.present
            THEN [ps EXCEPT !.current_question.answer = Strip(RemoveAll(line, "Answer:"))]
            ELSE ps
        ELSE IF StartsWith(line, "Explanation:") THEN
            [ps EXCEPT !.collecting_explanation = TRUE,
                       !.explanation_lines = <<Strip(RemoveAll(line, "Explanation:"))>>]
        ELSE IF ps.collecting_explanation /\ cq.present THEN
            IF line # ""
            THEN [ps EXCEPT !.explanation_lines = Append(ps.explanation_lines, line)]
            ELSE ps
        ELSE ps

RECURSIVE ParseLines(_, _)
ParseLines(ps, lines) ==
    IF lines = <<>> THEN ps ELSE ParseLines(ParseLine(ps, Head(lines)), Tail(lines))

\* parse_questions without the synthetic question for an empty result
parse_questions_no_fallback(text) ==
    LET ps == ParseLines(ParserStart, SplitLines(text))
    IN  IF ps.current_question.present
        THEN Append(ps.questions, Flushed(ps))
        ELSE ps.questions

\* parse_questions without the flush of the last question at end of input
parse_questions_no_final_flush(text) ==
    LET ps == ParseLines(ParserStart, SplitLines(text))
    IN  IF ps.questions = <<>> THEN <<SyntheticQuestion>> ELSE ps.questions

parse_questions(text) ==
    LET ps == ParseLines(ParserStart, SplitLines(text))
        questions == IF ps.current_question.present
                     THEN Append(ps.questions, Flushed(ps))
                     ELSE ps.questions
    IN  IF questions = <<>> THEN <<SyntheticQuestion>> ELSE questions

\* lines the inputs of parse_questions are made of
InputLines ==
    { "", "  ", "Q1: What is X?", "  Q2: Why?  ", "Question 3: How?", "4. Which one?",
      "Q5: When? ", "Q: not numbered", "B) an option", "Answer: It is Y", "Explanation: because Z",
      "and more", "Answer: see Answer: B" }

RECURSIVE TextsOfLines(_)
TextsOfLines(n) ==
    IF n = 1 THEN InputLines
    ELSE {t \o "\n" \o l : t \in TextsOfLines(n - 1), l \in InputLines}

ParseInputs == UNION {TextsOfLines(n) : n \in 1..MaxLines}

ParseInit ==
    /\ query = "python loops"
    /\ user_id = 1
    /\ user_profile = NoProfile
    /\ vector_store = FALSE
    /\ learning_progress = <<>>
    /\ pc = "idle"
    /\ state = initial_state(query, user_id, user_profile)
    /\ exc = ""
    /\ result = NoResult
    /\ learning_sessions = <<>>
    /\ calls = <<>>
    /\ executed = <<>>
    /\ clock = 0
    /\ questions_text \in ParseInputs
    /\ parsed = <<>>
    /\ parse_pc = "call"
    /\ QuizIdle
    /\ ConcIdle
    /\ session_state = init_session_state

\* agents.parse_questions(questions_text)
parse ==
    /\ parse_pc = "call"
    /\ parsed' = parse_questions(questions_text)
    /\ parse_pc' = "returned"
    /\ UNCHANGED <<questions_text, orch_vars, quiz_vars, conc_vars, ui_vars>>

ParseNext == parse

ParseSpec == ParseInit /\ [][ParseNext]_vars

----------------------------------------------------------------------------
(* Properties of orchestrate_learning_session *)

AllNodes == <<"explainer", "question_generator", "path_recommender", "summary">>

ResultKeys == {"explanation", "questions", "learning_path", "session_summary"}

CallsOf(port) == {i \in DOMAIN calls : calls[i].port = port}

\* the generation calls of a template that raised / returned
RaisedCalls(port) == {i \in CallsOf(port) : calls[i].out.raised}
ReturnedCalls(port) == {i \in CallsOf(port) : ~calls[i].out.raised}

IsResultObject(r) == r # NoResult /\ ResultKeys \subseteq DOMAIN r

IsDegraded(r) == IsResultObject(r) /\ "error" \in DOMAIN r.session_summary

IsFull(r) == IsResultObject(r) /\ "error" \notin DOMAIN r.session_summary

Returns == pc = "done"

\* C1: whatever the generation, search and persistence calls do, the run ends
\* by returning a result object (full or degraded) and never raises to its caller.
C1_RunReturnsAndNeverRaises ==
    /\ [](pc # "raised" /\ (Returns => IsResultObject(result)))
    /\ <>Returns

\* a run that returned although every port it called failed
C1_Witness ==
    /\ Returns
    /\ IsResultObject(result)
    /\ CallsOf("explanation") # {} /\ ReturnedCalls("explanation") = {}
    /\ CallsOf("questions") # {} /\ ReturnedCalls("questions") = {}
    /\ CallsOf("path") # {} /\ ReturnedCalls("path") = {}
    /\ \E i \in CallsOf("search_materials") : ~calls[i].ok
    /\ \E i \in CallsOf("save_learning_session") : ~calls[i].out

\* C2 (as claimed): the returned explanation, questions and learning path are
\* all non-empty strings, on the full and on the degraded path.
C2_ResultFieldsNonEmpty ==
    Returns =>
        /\ result.explanation # ""
        /\ result.questions # ""
        /\ result.learning_path # ""

\* C3 (as claimed): when the final save of the session summary fails, the run
\* returns the degraded result: summary {error, query} and the literal error strings.
C3_SaveFailureGivesDegradedResult ==
    (Returns /\ \E i \in CallsOf("save_learning_session") : ~calls[i].out) =>
        /\ IsDegraded(result)
        /\ result.questions = QuestionsErrorText
        /\ result.learning_path = LearningPathErrorText

\* C4 (as claimed): every run invokes save_learning_session exactly once, after
\* the summary node, with the summary carried in the returned result.
C4_EveryRunSavesOnce ==
    Returns =>
        /\ Cardinality(CallsOf("save_learning_session")) = 1
        /\ executed = AllNodes
        /\ \A i \in CallsOf("save_learning_session") :
               calls[i].session_data = result.session_summary

\* C4 (amended): save_learning_session is never invoked before the summary node
\* has completed and never more than once; a run that returns the full result
\* has invoked it exactly once, as its last call, with the summary carried in the
\* returned result (and a successful save stores that summary verbatim); a run
\* that returns the degraded result has not invoked it at all.
C4_FullRunSavesOnce ==
    /\ Cardinality(CallsOf("save_learning_session")) <= 1
    /\ CallsOf("save_learning_session") # {} => executed = AllNodes
    /\ (Returns /\ IsFull(result)) =>
          /\ CallsOf("save_learning_session") = {Len(calls)}
          /\ calls[Len(calls)].session_data = result.session_summary
          /\ result.session_summary = state.session_summary
          /\ calls[Len(calls)].out =>
                /\ Len(learning_sessions) = 1
                /\ learning_sessions[1].session_data = result.session_summary
                /\ learning_sessions[1].user_id = user_id
                /\ learning_sessions[1].topic = query
          /\ ~calls[Len(calls)].out => learning_sessions = <<>>
    /\ (Returns /\ IsDegraded(result)) =>
          CallsOf("save_learning_session") = {} /\ learning_sessions = <<>>

\* a full run whose single save stored the returned summary
C4_Witness ==
    /\ Returns
    /\ IsFull(result)
    /\ Len(learning_sessions) = 1
    /\ learning_sessions[1].session_data = result.session_summary

IsPrefix(a, b) == Len(a) <= Len(b) /\ SubSeq(b, 1, Len(a)) = a

\* the call of a node to its text-generation template (the first call of that template)
FirstCall(port) == CHOOSE i \in CallsOf(port) : \A j \in CallsOf(port) : i <= j

PlaceholderResources == "Basic learning materials\nOnline tutorials\nPractice exercises"

\* C5: a generation or search failure in any of the stages 1-3 is caught at that
\* stage and replaced by the stage's fallback payload; no such error reaches the
\* orchestrator's handler, and a run in which nothing but ports fail executes all
\* four stages and returns the full result.
C5_PortFailuresAreMaskedInStage ==
    /\ pc \in {"except", "raised"} => exc \notin ErrMsgs
    /\ (Returns /\ IsDegraded(result)) => result.session_summary.error \notin ErrMsgs
    /\ RaisedCalls("explanation") # {} =>
          \E m \in ErrMsgs :
              /\ calls[FirstCall("explanation")].out = Raised(m)
              /\ state.explanation = ExplanationFallback(query, m)
    /\ RaisedCalls("questions") # {} =>
          \E m \in ErrMsgs :
              /\ calls[FirstCall("questions")].out = Raised(m)
              /\ state.questions = QuestionsFallback(query, m)
    /\ RaisedCalls("path") # {} =>
          \E m \in ErrMsgs :
              /\ calls[FirstCall("path")].out = Raised(m)
              /\ state.learning_path = LearningPathFallback(query, m)
    /\ \A i \in CallsOf("search_materials") :
          (~calls[i].ok /\ CallsOf("path") # {}) =>
              calls[FirstCall("path")].vars.available_resources = PlaceholderResources
    /\ (Returns /\ user_profile.present) =>
          /\ IsFull(result)
          /\ executed = AllNodes
          /\ result.explanation = state.explanation
          /\ result.questions = state.questions
          /\ result.learning_path = state.learning_path

\* a full result returned after the three generation calls and the search all failed
C5_Witness ==
    /\ Returns
    /\ IsFull(result)
    /\ executed = AllNodes
    /\ RaisedCalls("explanation") # {}
    /\ RaisedCalls("questions") # {}
    /\ RaisedCalls("path") # {}
    /\ \E i \in CallsOf("search_materials") : ~calls[i].ok

\* generation failed for the explanation template and for no other template
ExplanationOnlyFailed ==
    /\ RaisedCalls("explanation") # {}
    /\ ReturnedCalls("explanation") = {}
    /\ ReturnedCalls("questions") # {} /\ RaisedCalls("questions") = {}
    /\ ReturnedCalls("path") # {} /\ RaisedCalls("path") = {}

\* C6: when generation fails for the explanation template only, the returned
\* explanation contains the query and no more than the first 100 characters of
\* the error message, and questions and learning path are the texts returned by
\* their own generation calls.
C6_ExplanationFailureOnly ==
    (Returns /\ ExplanationOnlyFailed) =>
        LET e == calls[FirstCall("explanation")].out.val
        IN  /\ Contains(result.explanation, query)
            /\ Contains(result.explanation, Take(e, 100))
            /\ Len(result.explanation) <= Len(ExplanationFallback(query, "")) + 100
            /\ ~Contains(result.explanation, "XY")
            /\ result.questions = calls[FirstCall("questions")].out.val
            /\ result.learning_path = calls[FirstCall("path")].out.val
            /\ result.questions # QuestionsErrorText
            /\ result.learning_path # LearningPathErrorText

\* the explanation call failed with the 102-character message, the other two returned
C6_Witness ==
    /\ Returns
    /\ ExplanationOnlyFailed
    /\ calls[FirstCall("explanation")].out = Raised(LongErr)
    /\ calls[FirstCall("questions")].out.val # ""

\* an error escaped the stage-local handlers of this run
ErrorEscaped == exc # ""

\* C7: whenever an error escapes the stage-local handlers, the returned result is
\* the degraded one: the explanation of one fresh explain_concept attempt (the
\* generated text, or its fallback), the two literal error strings, and the
\* summary {error: message, query} with the original query.
C7_DegradedResultShape ==
    (Returns /\ ErrorEscaped) =>
        /\ DOMAIN result = ResultKeys
        /\ result.questions = QuestionsErrorText
        /\ result.learning_path = LearningPathErrorText
        /\ result.session_summary = [error |-> exc, query |-> query]
        /\ \/ result.explanation = ExplanationFallback(query, NoneGetErr)
           \/ /\ calls # <<>>
              /\ calls[Len(calls)].port = "explanation"
              /\ result.explanation =
                    IF calls[Len(calls)].out.raised
                    THEN ExplanationFallback(query, calls[Len(calls)].out.val)
                    ELSE calls[Len(calls)].out.val

\* a degraded result returned after the summary node raised
C7_Witness ==
    /\ Returns
    /\ ErrorEscaped
    /\ IsDegraded(result)
    /\ executed = AllNodes

\* the order in which one run reaches its ports
PortOrder == <<"explanation", "get_user_progress", "questions", "search_materials",
               "path", "save_learning_session", "explanation">>

RECURSIVE IsSubsequence(_, _)
IsSubsequence(a, b) ==
    IF a = <<>> THEN TRUE
    ELSE IF b = <<>> THEN FALSE
    ELSE IF Head(a) = Head(b) THEN IsSubsequence(Tail(a), Tail(b))
    ELSE IsSubsequence(a, Tail(b))

\* C8: the nodes run in the order explainer, question_generator, path_recommender,
\* summary, each at most once and each after the calls of the previous one have
\* returned; nothing runs after summary, and a run is past the graph only when
\* all four have run.
C8_FixedStageOrder ==
    /\ IsPrefix(executed, AllNodes)
    /\ pc \in {"explainer", "question_generator", "path_recommender", "summary"} =>
          Len(executed) < 4 /\ pc = AllNodes[Len(executed) + 1]
    /\ (pc = "save" \/ (Returns /\ IsFull(result))) => executed = AllNodes
    /\ IsSubsequence([i \in DOMAIN calls |-> calls[i].port], PortOrder)
    /\ CallsOf("questions") # {} => "explainer" \in {executed[i] : i \in DOMAIN executed}
    /\ CallsOf("path") # {} =>
          "question_generator" \in {executed[i] : i \in DOMAIN executed}

\* a finished run in which the four nodes ran
C8_Witness ==
    /\ Returns
    /\ executed = AllNodes
    /\ CallsOf("path") # {}

----------------------------------------------------------------------------
(* Properties of parse_questions *)

ParseReturned == parse_pc = "returned"

RawLines == SplitLines(questions_text)

\* the lines as the loop sees them: lines[i].strip()
TrimmedLines == [i \in DOMAIN RawLines |-> Strip(RawLines[i])]

\* the lines the parser takes for the start of a question, in input order
QuestionStartLines == SelectSeq(TrimmedLines, IsQuestionStart)

\* the untrimmed lines that match one of the three patterns, in input order
RawQuestionStartLines == SelectSeq(RawLines, IsQuestionStart)

QuestionTexts == [i \in DOMAIN parsed |-> parsed[i].question]

\* C9 (as claimed): parse_questions returns at least one record for every text,
\* and returns exactly the single synthetic reflection record if and only if no
\* line of the text matches ^Q\d+:, ^Question \d+: or ^\d+\.; parse("") is that
\* single record.
C9_SyntheticIffNoMatchingLine ==
    ParseReturned =>
        /\ Len(parsed) >= 1
        /\ parsed = <<SyntheticQuestion>> <=> RawQuestionStartLines = <<>>
        /\ questions_text = "" => parsed = <<SyntheticQuestion>>

\* C9 (amended): parse_questions returns at least one record for every text, and
\* returns exactly the single synthetic reflection record (empty options, fixed
\* answer, fixed explanation) if and only if no line of the text, trimmed of
\* surrounding whitespace, matches a question-start pattern; parse("") is that
\* single record.
C9_SyntheticIffNoTrimmedMatchingLine ==
    ParseReturned =>
        /\ Len(parsed) >= 1
        /\ parsed = <<SyntheticQuestion>> <=> QuestionStartLines = <<>>
        /\ questions_text = "" => parsed = <<SyntheticQuestion>>
        /\ \A i \in DOMAIN parsed :
              DOMAIN parsed[i] = {"question", "options", "answer", "explanation"}

\* the synthetic record returned for a text that has content but no question start
C9_Witness ==
    /\ ParseReturned
    /\ parsed = <<SyntheticQuestion>>
    /\ \E i \in DOMAIN TrimmedLines : StartsWith(TrimmedLines[i], "Answer:")

\* C10 (as claimed): when some line matches ^Q\d+:, ^Question \d+: or ^\d+\., the
\* records are, in order, one per matching line, each with that line as its
\* question text.
C10_OneRecordPerMatchingLine ==
    (ParseReturned /\ RawQuestionStartLines # <<>>) =>
        QuestionTexts = RawQuestionStartLines

\* C10 (amended): every line is trimmed of surrounding whitespace before it is
\* matched; when some trimmed line matches one of the three patterns, the records
\* are, in input order, one per such line, each with the trimmed line as its
\* question text, and none is lost or duplicated by a flush.
C10_OneRecordPerTrimmedMatchingLine ==
    (ParseReturned /\ QuestionStartLines # <<>>) =>
        /\ Len(parsed) = Len(QuestionStartLines)
        /\ QuestionTexts = QuestionStartLines

\* three question starts, one of them indented, flushed at a new start and at the end
C10_Witness ==
    /\ ParseReturned
    /\ Len(QuestionStartLines) >= 3
    /\ Len(parsed) = Len(QuestionStartLines)
    /\ QuestionStartLines # RawQuestionStartLines

\* positions, in the text, of the lines the parser takes for a question start
QuestionStartIndices ==
    SelectSeq([i \in DOMAIN TrimmedLines |-> i],
              LAMBDA i : IsQuestionStart(TrimmedLines[i]))

\* the lines after the k-th question start and before the next one (or the end)
BlockLines(k) ==
    LET first == QuestionStartIndices[k] + 1
        last == IF k < Len(QuestionStartIndices)
                THEN QuestionStartIndices[k + 1] - 1
                ELSE Len(TrimmedLines)
    IN  SubSeq(TrimmedLines, first, last)

\* C11 (as claimed): a record's explanation comes only from lines of its own
\* block; a question whose block has no Explanation: line has explanation "",
\* whatever text precedes its question-start line.
C11_ExplanationOnlyFromOwnBlock ==
    (ParseReturned /\ QuestionStartLines # <<>>) =>
        \A k \in DOMAIN parsed :
            (\A j \in DOMAIN BlockLines(k) : ~StartsWith(BlockLines(k)[j], "Explanation:"))
                => parsed[k].explanation = ""

----------------------------------------------------------------------------
(* The answer check of the Learn page (src/app.py, Check Answer button) *)

\* length of the first run of non-whitespace characters of s
RECURSIVE WordRun(_)
WordRun(s) == IF s # "" /\ ~IsSpace(Head(s)) THEN 1 + WordRun(Tail(s)) ELSE 0

\* s.split()
RECURSIVE Words(_)
Words(s) ==
    LET t == LStrip(s)
    IN  IF t = "" THEN <<>>
        ELSE <<Take(t, WordRun(t))>> \o Words(Drop(t, WordRun(t)))

\* the check with `len(word) >= 3`
is_correct_min3(answer, reference) ==
    LET user_answer_lower == Lower(answer)
        correct_answer_lower == Lower(reference)
        words == Words(correct_answer_lower)
    IN  \/ Contains(correct_answer_lower, user_answer_lower)
        \/ Contains(user_answer_lower, correct_answer_lower)
        \/ \E w \in DOMAIN words :
              Len(words[w]) >= 3 /\ Contains(user_answer_lower, words[w])

\* is_correct = (user_answer_lower in correct_answer_lower or
\*               correct_answer_lower in user_answer_lower or
\*               any(word in user_answer_lower
\*                   for word in correct_answer_lower.split() if len(word) > 3))
is_correct(answer, reference) ==
    LET user_answer_lower == Lower(answer)
        correct_answer_lower == Lower(reference)
        words == Words(correct_answer_lower)
    IN  \/ Contains(correct_answer_lower, user_answer_lower)
        \/ Contains(user_answer_lower, correct_answer_lower)
        \/ \E w \in DOMAIN words :
              Len(words[w]) > 3 /\ Contains(user_answer_lower, words[w])

----------------------------------------------------------------------------
(* Quiz results and topic progress (src/database.py), written by the answer check *)

\* answers checked in one behaviour
MaxAnswers == 3

QuestionLimit == 200
QuizFieldLimit == 500

\* int((correct / total) * 100) if total > 0 else 0
\* (for total < 50 the float product truncates to the integer quotient; the
\*  first pair where it does not is 29 of 50, far above the totals reached here)
proficiency_of(correct, total) ==
    IF total > 0 THEN (100 * correct) \div total ELSE 0

\* SELECT id, ... WHERE user_id = ? AND topic = ? ; fetchone(): 0 when no row
RECURSIVE fetch_progress_id(_, _, _, _)
fetch_progress_id(table, u, topic, from) ==
    IF from > Len(table) THEN 0
    ELSE IF table[from].user_id = u /\ table[from].topic = topic THEN from
    ELSE fetch_progress_id(table, u, topic, from + 1)

\* the UPDATE or INSERT of update_progress, from the row that was read
write_progress(table, id, seen, u, topic, correct, total_questions, now) ==
    IF id # 0
    THEN LET new_attempted == seen.questions_attempted + total_questions
             new_correct == seen.questions_correct + correct
         IN  IF id \in DOMAIN table
             THEN [table EXCEPT ![id] =
                      [@ EXCEPT !.questions_attempted = new_attempted,
                                !.questions_correct = new_correct,
                                !.proficiency_score = proficiency_of(new_correct, new_attempted),
                                !.last_practiced = now]]
             ELSE table
    ELSE Append(table, ProgressRow(u, topic, total_questions, correct,
                                   proficiency_of(correct, total_questions), now))

\* an update that adds the correct answers but not the attempted ones
update_progress_keeps_attempted(table, u, topic, correct, total_questions, now, db_ok) ==
    LET id == fetch_progress_id(table, u, topic, 1)
    IN  IF ~db_ok THEN [ret |-> FALSE, table |-> table]
        ELSE [ret |-> TRUE,
              table |-> write_progress(table, id, IF id # 0 THEN table[id] ELSE <<>>,
                                       u, topic, correct, 0, now)]

\* DatabaseManager.update_progress on one connection, with nothing in between:
\* the value returned and the new table; an exception leaves the table alone
update_progress(table, u, topic, correct, total_questions, now, db_ok) ==
    LET id == fetch_progress_id(table, u, topic, 1)
    IN  IF ~db_ok THEN [ret |-> FALSE, table |-> table]
        ELSE [ret |-> TRUE,
              table |-> write_progress(table, id, IF id # 0 THEN table[id] ELSE <<>>,
                                       u, topic, correct, total_questions, now)]

\* DatabaseManager.save_quiz_result: the insert, then update_progress, whose
\* return value is not looked at
save_quiz_result(results, table, u, topic, question, answer, reference, correct, now, insert_ok, update_ok) ==
    IF ~insert_ok
    THEN [ret |-> FALSE, quiz_results |-> results, learning_progress |-> table]
    ELSE [ret |-> TRUE,
          quiz_results |->
              Append(results, [user_id |-> u, topic |-> topic,
                               question |-> Take(question, QuizFieldLimit),
                               user_answer |-> Take(answer, QuizFieldLimit),
                               correct_answer |-> Take(reference, QuizFieldLimit),
                               is_correct |-> IF correct THEN 1 ELSE 0,
                               created_at |-> now]),
          learning_progress |->
              update_progress(table, u, topic, IF correct THEN 1 ELSE 0, 1,
                              now, update_ok).table]

\* st.session_state.current_topic
QuizTopics == {"python loops", "What is a Queue?"}

\* the parsed question on display
QuizQuestion == [question |-> "What is a Queue?", answer |-> "FIFO"]

\* what the user types: one answer judged correct, one judged wrong
QuizAnswers == {"it is FIFO order", "a stack"}

QuizInit ==
    /\ query = "python loops"
    /\ user_id = 1
    /\ user_profile = NoProfile
    /\ vector_store = FALSE
    /\ learning_progress = <<>>
    /\ pc = "idle"
    /\ state = initial_state(query, user_id, user_profile)
    /\ exc = ""
    /\ result = NoResult
    /\ learning_sessions = <<>>
    /\ calls = <<>>
    /\ executed = <<>>
    /\ clock = 1
    /\ questions_text = ""
    /\ parsed = <<>>
    /\ parse_pc = "idle"
    /\ QuizIdle
    /\ ConcIdle
    /\ session_state = init_session_state

\* Check Answer: judge the typed answer and store the result
check_answer ==
    /\ quiz_pc \in {"idle", "checked"}
    /\ clock <= MaxAnswers
    /\ \E u \in UserIds, topic \in QuizTopics, answer \in QuizAnswers,
          insert_ok \in BOOLEAN, update_ok \in BOOLEAN :
         /\ answer # ""
         /\ \E correct \in {is_correct(answer, QuizQuestion.answer)} :
              \E w \in {save_quiz_result(quiz_results, learning_progress, u, topic,
                                         Take(QuizQuestion.question, QuestionLimit),
                                         answer, QuizQuestion.answer, correct, clock,
                                         insert_ok, update_ok)} :
                 /\ user_id' = u
                 /\ user_answer' = answer
                 /\ correct_answer' = QuizQuestion.answer
                 /\ verdict' = correct
                 /\ quiz_results' = w.quiz_results
                 /\ learning_progress' = w.learning_progress
                 /\ quiz_log' = <<[user_id |-> u, topic |-> topic,
                                   is_correct |-> correct, ret |-> w.ret,
                                   before |-> learning_progress,
                                   after |-> w.learning_progress]>>
    /\ quiz_pc' = "checked"
    /\ clock' = clock + 1
    /\ UNCHANGED <<query, user_profile, vector_store, pc, state, exc, result,
                   learning_sessions, calls, executed, parse_vars, ui_vars, conc_vars>>

QuizNext == check_answer

QuizSpec == QuizInit /\ [][QuizNext]_vars

\* answers typed by the user (the handler rejects the empty answer)
JudgeAnswers ==
    { "paris", "xyz", "Paris, France", "it is FIFO order", "a queue thing", "the end",
      "Data", "capitalism", "is" }

\* reference answers of parsed questions
JudgeReferences ==
    { "The capital of France is Paris", "completely unrelated answer", "FIFO",
      "It is a Queue", "see the cat", "raw data set", "" }

JudgeInit ==
    /\ query = "python loops"
    /\ user_id = 1
    /\ user_profile = NoProfile
    /\ vector_store = FALSE
    /\ learning_progress = <<>>
    /\ pc = "idle"
    /\ state = initial_state(query, user_id, user_profile)
    /\ exc = ""
    /\ result = NoResult
    /\ learning_sessions = <<>>
    /\ calls = <<>>
    /\ executed = <<>>
    /\ clock = 0
    /\ questions_text = ""
    /\ parsed = <<>>
    /\ parse_pc = "idle"
    /\ user_answer \in JudgeAnswers
    /\ correct_answer \in JudgeReferences
    /\ verdict = FALSE
    /\ quiz_pc = "check"
    /\ quiz_results = <<>>
    /\ quiz_log = <<>>
    /\ ConcIdle
    /\ session_state = init_session_state

\* a handler that grades nothing as correct when the question has no reference answer
judge_needs_reference ==
    /\ quiz_pc = "check"
    /\ user_answer # ""
    /\ \E insert_ok \in BOOLEAN, update_ok \in BOOLEAN :
         \E correct \in {correct_answer # "" /\ is_correct(user_answer, correct_answer)} :
            \E w \in {save_quiz_result(quiz_results, learning_progress, user_id, query,
                                       Take(QuizQuestion.question, QuestionLimit),
                                       user_answer, correct_answer, correct, clock,
                                       insert_ok, update_ok)} :
               /\ verdict' = correct
               /\ quiz_results' = w.quiz_results
               /\ learning_progress' = w.learning_progress
    /\ quiz_pc' = "judged"
    /\ clock' = clock + 1
    /\ UNCHANGED <<user_answer, correct_answer, quiz_log, session_vars, parse_vars, ui_vars,
                   conc_vars>>

\* Check Answer on the typed answer and the reference of the question on
\* display: the similarity check, then save_quiz_result with its verdict
judge ==
    /\ quiz_pc = "check"
    /\ user_answer # ""
    /\ \E insert_ok \in BOOLEAN, update_ok \in BOOLEAN :
         \E correct \in {is_correct(user_answer, correct_answer)} :
            \E w \in {save_quiz_result(quiz_results, learning_progress, user_id, query,
                                       Take(QuizQuestion.question, QuestionLimit),
                                       user_answer, correct_answer, correct, clock,
                                       insert_ok, update_ok)} :
               /\ verdict' = correct
               /\ quiz_results' = w.quiz_results
               /\ learning_progress' = w.learning_progress
    /\ quiz_pc' = "judged"
    /\ clock' = clock + 1
    /\ UNCHANGED <<user_answer, correct_answer, quiz_log, session_vars, parse_vars, ui_vars,
                   conc_vars>>

JudgeNext == judge

JudgeSpec == JudgeInit /\ [][JudgeNext]_vars

----------------------------------------------------------------------------
(* save_quiz_result called from several sessions at once: every call opens its
   own connection, and the SELECT of update_progress is a statement of its
   own, outside the transaction that the UPDATE or INSERT opens *)

\* calls in flight
NumWorkers == 2

Workers == 1..NumWorkers

\* a progress row as one of the calls could have left it
SeenRows == {<<>>, ProgressRow(1, "python loops", 1, 1, 100, 0)}

\* one call of save_quiz_result(u, topic, ..., is_correct) that has not started
NewCall(u, topic, correct, table) ==
    [pc |-> "insert", user_id |-> u, topic |-> topic, correct |-> correct,
     id |-> 0, seen |-> <<>>, ret |-> FALSE, updated |-> FALSE, before |-> table]

ConcInit ==
    /\ query = "python loops"
    /\ user_id = 1
    /\ user_profile = NoProfile
    /\ vector_store = FALSE
    /\ \E first \in SeenRows :
         /\ learning_progress = IF first = <<>> THEN <<>> ELSE <<first>>
         /\ quiz_results = IF first = <<>> THEN <<>>
                           ELSE <<[user_id |-> first.user_id, topic |-> first.topic,
                                   question |-> QuizQuestion.question,
                                   user_answer |-> "FIFO",
                                   correct_answer |-> QuizQuestion.answer,
                                   is_correct |-> 1, created_at |-> 0]>>
    /\ pc = "idle"
    /\ state = initial_state(query, user_id, user_profile)
    /\ exc = ""
    /\ result = NoResult
    /\ learning_sessions = <<>>
    /\ calls = <<>>
    /\ executed = <<>>
    /\ clock = 1
    /\ questions_text = ""
    /\ parsed = <<>>
    /\ parse_pc = "idle"
    /\ user_answer = ""
    /\ correct_answer = ""
    /\ verdict = FALSE
    /\ quiz_pc = "idle"
    /\ quiz_log = <<>>
    /\ workers \in [Workers -> {NewCall(u, topic, correct, learning_progress) :
                                  u \in UserIds, topic \in QuizTopics,
                                  correct \in BOOLEAN}]
    /\ runs = <<>>
    /\ session_state = init_session_state

ConcStep(w, call) ==
    /\ workers' = [workers EXCEPT ![w] = call]
    /\ clock' = clock + 1
    /\ UNCHANGED <<session_vars, parse_vars, ui_vars, user_answer, correct_answer,
                   verdict, quiz_pc, quiz_log, runs>>

\* save_quiz_result: INSERT INTO quiz_results ; commit
quiz_insert(w) ==
    /\ workers[w].pc = "insert"
    /\ \E db_ok \in BOOLEAN :
         IF db_ok
         THEN /\ quiz_results' =
                    Append(quiz_results,
                           [user_id |-> workers[w].user_id, topic |-> workers[w].topic,
                            question |-> Take(QuizQuestion.question, QuizFieldLimit),
                            user_answer |-> "FIFO",
                            correct_answer |-> Take(QuizQuestion.answer, QuizFieldLimit),
                            is_correct |-> IF workers[w].correct THEN 1 ELSE 0,
                            created_at |-> clock])
              /\ ConcStep(w, [workers[w] EXCEPT !.pc = "read", !.ret = TRUE])
         ELSE /\ UNCHANGED quiz_results
              /\ ConcStep(w, [workers[w] EXCEPT !.pc = "done", !.ret = FALSE])
    /\ UNCHANGED learning_progress

\* update_progress: SELECT ... WHERE user_id = ? AND topic = ? ; fetchone()
progress_read(w) ==
    /\ workers[w].pc = "read"
    /\ \E db_ok \in BOOLEAN :
         IF db_ok
         THEN LET id == fetch_progress_id(learning_progress, workers[w].user_id,
                                          workers[w].topic, 1)
              IN  ConcStep(w, [workers[w] EXCEPT
                                  !.pc = "write", !.id = id,
                                  !.seen = IF id # 0 THEN learning_progress[id] ELSE <<>>])
         ELSE ConcStep(w, [workers[w] EXCEPT !.pc = "done"])
    /\ UNCHANGED <<learning_progress, quiz_results>>

\* update_progress: UPDATE ... WHERE id = ? or INSERT ; commit
progress_write(w) ==
    /\ workers[w].pc = "write"
    /\ \E db_ok \in BOOLEAN :
         /\ learning_progress' =
               IF db_ok
               THEN write_progress(learning_progress, workers[w].id, workers[w].seen,
                                   workers[w].user_id, workers[w].topic,
                                   IF workers[w].correct THEN 1 ELSE 0, 1, clock)
               ELSE learning_progress
         /\ ConcStep(w, [workers[w] EXCEPT !.pc = "done", !.updated = db_ok])
    /\ UNCHANGED quiz_results

ConcNext ==
    \E w \in Workers :
        \/ quiz_insert(w)
        \/ progress_read(w)
        \/ progress_write(w)

ConcSpec == ConcInit /\ [][ConcNext]_vars

----------------------------------------------------------------------------
(* orchestrate_learning_session called for two users at once: the workflow,
   its nodes and initial_state are locals of each call; the database and the
   module-level vector_store are what the calls have in common *)

\* what the LLM port answers to a call
SessOutcomes == {Returned("Q1: What is a Queue?\nAnswer: FIFO"), Raised("boom")}

\* the progress table during the sessions
SessProgress == CHOOSE table \in ProgressTables : Len(table) > 1

\* the topic each user asks about
SessQuery(u) == IF u = 1 THEN "python loops" ELSE "What is a Queue?"

\* get_user_profile: None, or the profile row
SessProfiles == {NoProfile, CHOOSE profile \in Profiles : profile.interests # <<>>}

\* the port responses a call has received, before it has received any
NothingHeard ==
    [explanation |-> Returned(""), progress |-> <<>>, questions |-> Returned(""),
     search |-> Returned(<<>>), path |-> Returned(""), now |-> 0,
     fallback |-> Returned("")]

\* one call of orchestrate_learning_session(q, u, profile) about to invoke the graph
NewRun(q, u, profile) ==
    [query |-> q, user_id |-> u, user_profile |-> profile, pc |-> "explainer",
     state |-> initial_state(q, u, profile), exc |-> "", result |-> NoResult,
     heard |-> NothingHeard]

\* one state object for all calls
run_state_of_first_call(r) == runs[CHOOSE u \in UserIds : \A v \in UserIds : u <= v].state

\* the LearningState the graph of call r passes from node to node
run_state(r) == runs[r].state

SessInit ==
    /\ query = "python loops"
    /\ user_id = 1
    /\ user_profile = NoProfile
    /\ vector_store = TRUE
    /\ learning_progress = SessProgress
    /\ pc = "idle"
    /\ state = initial_state(query, user_id, user_profile)
    /\ exc = ""
    /\ result = NoResult
    /\ learning_sessions = <<>>
    /\ calls = <<>>
    /\ executed = <<>>
    /\ clock = 0
    /\ questions_text = ""
    /\ parsed = <<>>
    /\ parse_pc = "idle"
    /\ QuizIdle
    /\ workers = <<>>
    /\ session_state = init_session_state
    /\ \E profile \in [UserIds -> SessProfiles] :
         runs = [u \in UserIds |-> NewRun(SessQuery(u), u, profile[u])]

\* a node of call r has run: a raise leaves app.invoke for the handler
RunStep(r, out, next_pc, heard) ==
    /\ \E o \in {out} :
         runs' = [runs EXCEPT ![r] =
                    IF o.raised
                    THEN [@ EXCEPT !.pc = "except", !.exc = o.val, !.heard = heard]
                    ELSE [@ EXCEPT !.pc = next_pc, !.state = o.val, !.heard = heard]]
    /\ clock' = clock + 1
    /\ UNCHANGED <<session_vars, learning_progress, parse_vars, ui_vars, quiz_vars, workers>>

run_explainer(r) ==
    /\ runs[r].pc = "explainer"
    /\ \E out \in SessOutcomes :
         RunStep(r, generate_explanation(run_state(r), out), "question_generator",
                 [runs[r].heard EXCEPT !.explanation = out])

run_question_generator(r) ==
    /\ runs[r].pc = "question_generator"
    /\ \E db_ok \in BOOLEAN, out \in SessOutcomes :
         LET progress == get_user_progress(learning_progress, run_state(r).user_id, db_ok)
         IN  RunStep(r, generate_practice_questions(run_state(r), progress, out),
                     "path_recommender",
                     [runs[r].heard EXCEPT !.progress = progress, !.questions = out])

run_path_recommender(r) ==
    /\ runs[r].pc = "path_recommender"
    /\ \E index_ok \in BOOLEAN, out \in SessOutcomes :
         LET sr == search_materials(run_state(r).query, SearchK, SearchK, index_ok)
         IN  RunStep(r, generate_learning_path(run_state(r), vector_store, sr, out),
                     "summary",
                     [runs[r].heard EXCEPT !.search = sr, !.path = out])

run_summary(r) ==
    /\ runs[r].pc = "summary"
    /\ RunStep(r, create_session_summary(run_state(r), clock), "save",
               [runs[r].heard EXCEPT !.now = clock])

\* db.save_learning_session(...) ; return result
run_save(r) ==
    /\ runs[r].pc = "save"
    /\ \E db_ok \in BOOLEAN :
         learning_sessions' =
             save_learning_session(learning_sessions, runs[r].user_id, runs[r].query,
                                   "General", run_state(r).session_summary, clock,
                                   db_ok).table
    /\ runs' = [runs EXCEPT ![r] = [@ EXCEPT !.pc = "done", !.result = run_state(r)]]
    /\ clock' = clock + 1
    /\ UNCHANGED <<query, user_id, user_profile, vector_store, learning_progress, pc,
                   state, exc, result, calls, executed, parse_vars, ui_vars, quiz_vars, workers>>

\* except Exception as e: return the fallback result
run_except(r) ==
    /\ runs[r].pc = "except"
    /\ \E out \in SessOutcomes :
         LET e == explain_concept(runs[r].query, runs[r].user_profile, out)
         IN  runs' = [runs EXCEPT ![r] =
                        IF e.raised
                        THEN [@ EXCEPT !.pc = "raised", !.exc = e.val,
                                       !.heard = [@ EXCEPT !.fallback = out]]
                        ELSE [@ EXCEPT !.pc = "done",
                                       !.result = fallback_result(runs[r].query, e.val,
                                                                  runs[r].exc),
                                       !.heard = [@ EXCEPT !.fallback = out]]]
    /\ clock' = clock + 1
    /\ UNCHANGED <<session_vars, learning_progress, parse_vars, ui_vars, quiz_vars, workers>>

SessNext ==
    \E r \in UserIds :
        \/ run_explainer(r)
        \/ run_question_generator(r)
        \/ run_path_recommender(r)
        \/ run_summary(r)
        \/ run_save(r)
        \/ run_except(r)

SessSpec == SessInit /\ [][SessNext]_vars

----------------------------------------------------------------------------
(* One logged-in browser session (src/app.py): the sidebar menu, the Learn
   page, the topic buttons of the Resources page and View Full of the Profile
   page.  The Study button of the resource search (app.py:693) sits inside the
   block of another button and never fires; it is left out. *)

\* handlers that write to the stores in one behaviour
MaxClicks == 2

\* the profile of the logged-in user
UiProfile == CHOOSE profile \in Profiles : profile.present /\ profile.interests = <<>>

\* what the LLM answers about a topic, and the messages of its failures
UiExplanations(topic) == {Returned("About " \o topic), Raised("boom")}

UiErrMsgs == {"boom", "rate limit\n1. retry later"}

UiQuestions(topic) ==
    {Returned("Q1: What is " \o topic \o "?\nAnswer: FIFO")}
        \cup {Raised(m) : m \in UiErrMsgs}

\* vector_store.get_all_topics()
get_all_topics ==
    {RankedDocs[i].topic : i \in {j \in DOMAIN RankedDocs : RankedDocs[j].has_topic}}

\* db.get_saved_explanations(user_id): rows saved in an earlier session
SavedExplanations ==
    {[topic |-> "Data Science", explanation |-> "NumPy is an array library"]}

Pages == {"Dashboard", "Learn", "Progress", "Resources", "Profile"}

UiInit ==
    /\ query = ""
    /\ user_id = 1
    /\ user_profile = UiProfile
    /\ vector_store = TRUE
    /\ learning_progress = <<>>
    /\ pc = "idle"
    /\ state = initial_state(query, user_id, user_profile)
    /\ exc = ""
    /\ result = NoResult
    /\ learning_sessions = <<>>
    /\ calls = <<>>
    /\ executed = <<>>
    /\ clock = 1
    /\ questions_text = ""
    /\ parsed = <<>>
    /\ parse_pc = "idle"
    /\ QuizIdle
    /\ ConcIdle
    /\ session_state = [init_session_state EXCEPT !.menu_selection = "Dashboard"]

\* option_menu in the sidebar
navigate ==
    /\ \E page \in Pages : session_state' = [session_state EXCEPT !.menu_selection = page]
    /\ UNCHANGED <<orch_vars, parse_vars, quiz_vars, conc_vars>>

\* Start Learning Session: orchestrate_learning_session(topic, ...), the result
\* stored in the session state, its questions parsed
start_session ==
    /\ session_state.menu_selection = "Learn"
    /\ clock <= MaxClicks
    /\ \E topic \in Queries, db_ok \in {TRUE}, index_ok \in {TRUE}, save_ok \in {TRUE} :
       \E e_out \in UiExplanations(topic), q_out \in UiQuestions(topic) :
       \E r1 \in {generate_explanation(initial_state(topic, user_id, user_profile), e_out)} :
       \E r2 \in {IF r1.raised THEN r1
                  ELSE generate_practice_questions(
                          r1.val, get_user_progress(learning_progress, user_id, db_ok),
                          q_out)} :
       \E r3 \in {IF r2.raised THEN r2
                  ELSE generate_learning_path(
                          r2.val, vector_store,
                          search_materials(topic, SearchK, SearchK, index_ok),
                          Returned("Step 1"))} :
       \E r4 \in {IF r3.raised THEN r3 ELSE create_session_summary(r3.val, clock)} :
       \E res \in {IF r4.raised
                   THEN fallback_result(topic,
                                        explain_concept(topic, user_profile, e_out).val,
                                        r4.val)
                   ELSE r4.val} :
          /\ query' = topic
          /\ result' = res
          /\ calls' = <<[port |-> "explanation",
                         vars |-> explain_concept_vars(topic, user_profile),
                         out |-> e_out],
                        [port |-> "questions",
                         vars |-> generate_questions_vars(
                                     topic, r1.val.explanation,
                                     topic_proficiency(
                                         get_user_progress(learning_progress, user_id, db_ok),
                                         topic),
                                     NumQuestions),
                         out |-> q_out]>>
          /\ learning_sessions' =
                IF r4.raised THEN learning_sessions
                ELSE save_learning_session(learning_sessions, user_id, topic, "General",
                                           res.session_summary, clock, save_ok).table
          /\ session_state' =
                [session_state EXCEPT
                    !.current_topic = topic,
                    !.current_explanation = res.explanation,
                    !.current_questions = res.questions,
                    !.current_learning_path = res.learning_path,
                    !.parsed_questions = IF res.questions # ""
                                         THEN parse_questions(res.questions)
                                         ELSE <<>>]
    /\ clock' = clock + 1
    /\ UNCHANGED <<user_id, user_profile, vector_store, learning_progress, pc, state, exc,
                   executed, parse_vars, quiz_vars, conc_vars>>

\* Study This Resource under the explanation on display
study_this_resource ==
    /\ session_state.menu_selection = "Learn"
    /\ session_state.current_explanation # ""
    /\ vector_store
    /\ \E index_ok \in BOOLEAN :
         LET search_results == search_materials(session_state.current_topic, SearchK,
                                                SearchK, index_ok).val
         IN  \E i \in DOMAIN search_results :
                session_state' =
                    [session_state EXCEPT
                        !.current_topic = IF search_results[i].has_topic
                                          THEN search_results[i].topic ELSE @,
                        !.current_explanation = ""]
    /\ UNCHANGED <<orch_vars, parse_vars, quiz_vars, conc_vars>>

\* a topic button of the Resources page
choose_topic ==
    /\ session_state.menu_selection = "Resources"
    /\ vector_store
    /\ \E topic \in get_all_topics :
         session_state' = [session_state EXCEPT !.current_topic = topic,
                                                !.menu_selection = "Learn"]
    /\ UNCHANGED <<orch_vars, parse_vars, quiz_vars, conc_vars>>

\* View Full on a saved explanation of the Profile page
view_full ==
    /\ session_state.menu_selection = "Profile"
    /\ \E explanation \in SavedExplanations :
         session_state' = [session_state EXCEPT
                              !.current_topic = explanation.topic,
                              !.current_explanation = explanation.explanation,
                              !.menu_selection = "Learn"]
    /\ UNCHANGED <<orch_vars, parse_vars, quiz_vars, conc_vars>>

\* Check Answer on one of the questions on display
check_displayed_answer ==
    /\ session_state.menu_selection = "Learn"
    /\ session_state.current_explanation # ""
    /\ session_state.parsed_questions # <<>>
    /\ clock <= MaxClicks
    /\ \E idx \in DOMAIN session_state.parsed_questions, answer \in {"FIFO"},
          insert_ok \in {TRUE}, update_ok \in BOOLEAN :
       \E question_data \in {session_state.parsed_questions[idx]} :
       \E correct \in {is_correct(answer, question_data.answer)} :
       \E w \in {save_quiz_result(quiz_results, learning_progress, user_id,
                                  session_state.current_topic,
                                  Take(question_data.question, QuestionLimit), answer,
                                  question_data.answer, correct, clock,
                                  insert_ok, update_ok)} :
          /\ user_answer' = answer
          /\ correct_answer' = question_data.answer
          /\ verdict' = correct
          /\ quiz_results' = w.quiz_results
          /\ learning_progress' = w.learning_progress
          /\ quiz_log' = <<[user_id |-> user_id, topic |-> session_state.current_topic,
                            is_correct |-> correct, ret |-> w.ret,
                            before |-> learning_progress,
                            after |-> w.learning_progress,
                            query |-> query]>>
    /\ quiz_pc' = "checked"
    /\ clock' = clock + 1
    /\ UNCHANGED <<session_vars, parse_vars, conc_vars, ui_vars>>

UiNext ==
    \/ navigate
    \/ start_session
    \/ study_this_resource
    \/ choose_topic
    \/ view_full
    \/ check_displayed_answer

UiSpec == UiInit /\ [][UiNext]_vars

----------------------------------------------------------------------------
(* Properties of the answer check *)

Judged == quiz_pc = "judged"

\* s[i..j] is a whitespace-delimited token of s
IsToken(s, i, j) ==
    /\ 1 <= i /\ i <= j /\ j <= Len(s)
    /\ \A k \in i..j : ~IsSpace(Ch(s, k))
    /\ i = 1 \/ IsSpace(Ch(s, i - 1))
    /\ j = Len(s) \/ IsSpace(Ch(s, j + 1))

\* some token of ref longer than 3 characters occurs inside ans
LongTokenOccurs(ans, ref) ==
    \E i \in 1..Len(ref), j \in 1..Len(ref) :
        IsToken(ref, i, j) /\ j - i + 1 > 3 /\ Contains(ans, SubSeq(ref, i, j))

\* C12: the verdict is true exactly when, on the lowercased strings, the answer
\* is a substring of the reference, or the reference a substring of the answer,
\* or a whitespace-delimited token of the reference longer than 3 characters is
\* a substring of the answer; "paris" against the Paris sentence is correct and
\* "xyz" against "completely unrelated answer" is not.
C12_VerdictIffOneOfThree ==
    Judged =>
        /\ verdict <=>
              \/ Contains(Lower(correct_answer), Lower(user_answer))
              \/ Contains(Lower(user_answer), Lower(correct_answer))
              \/ LongTokenOccurs(Lower(user_answer), Lower(correct_answer))
        /\ (user_answer = "paris" /\ correct_answer = "The capital of France is Paris")
              => verdict
        /\ (user_answer = "xyz" /\ correct_answer = "completely unrelated answer")
              => ~verdict

\* a verdict that is true by the token rule alone
C12_Witness ==
    /\ Judged
    /\ verdict
    /\ ~Contains(Lower(correct_answer), Lower(user_answer))
    /\ ~Contains(Lower(user_answer), Lower(correct_answer))
    /\ LongTokenOccurs(Lower(user_answer), Lower(correct_answer))

----------------------------------------------------------------------------
(* Properties of the progress store *)

\* round(n / d) as Python rounds: to the nearest integer, ties to even
RoundDiv(n, d) ==
    LET q == n \div d
        r == n % d
    IN  IF 2 * r < d THEN q
        ELSE IF 2 * r > d THEN q + 1
        ELSE IF q % 2 = 0 THEN q ELSE q + 1

\* C13 (as claimed): every stored progress record has proficiency_score equal to
\* round(100 * questions_correct / questions_attempted) when questions_attempted
\* is positive, and 0 otherwise.
C13_ProficiencyIsRoundedPercentage ==
    \A i \in DOMAIN learning_progress :
        LET row == learning_progress[i]
        IN  row.proficiency_score =
                IF row.questions_attempted > 0
                THEN RoundDiv(100 * row.questions_correct, row.questions_attempted)
                ELSE 0

\* the call that has just been made
LastCheck == quiz_log[1]

\* the progress row of (u, topic) in a table; attempted 0 when there is none
ProgressOf(table, u, topic) ==
    LET id == fetch_progress_id(table, u, topic, 1)
    IN  IF id = 0 THEN ProgressRow(u, topic, 0, 0, 0, 0) ELSE table[id]

\* the rows of a table that are not the row of (u, topic)
OtherRows(table, u, topic) ==
    SelectSeq(table, LAMBDA row : ~(row.user_id = u /\ row.topic = topic))

\* C14 (as claimed, for the answers the store reports as saved): the answer
\* grows questions_attempted of its (user, topic) record by exactly 1 and
\* questions_correct by 1 when judged correct and by 0 otherwise; from
\* questions_attempted = 0 one correct answer gives 1, 1 and score 100; the
\* records of other users and other topics are unchanged.
C14_SavedAnswerIncrementsProgress ==
    (quiz_log # <<>> /\ LastCheck.ret) =>
        LET old == ProgressOf(LastCheck.before, LastCheck.user_id, LastCheck.topic)
            new == ProgressOf(LastCheck.after, LastCheck.user_id, LastCheck.topic)
        IN  /\ new.questions_attempted = old.questions_attempted + 1
            /\ new.questions_correct =
                   old.questions_correct + (IF LastCheck.is_correct THEN 1 ELSE 0)
            /\ (old.questions_attempted = 0 /\ LastCheck.is_correct)
                   => /\ new.questions_attempted = 1
                      /\ new.questions_correct = 1
                      /\ new.proficiency_score = 100
            /\ OtherRows(LastCheck.after, LastCheck.user_id, LastCheck.topic)
                   = OtherRows(LastCheck.before, LastCheck.user_id, LastCheck.topic)

\* C18: in every reachable store state every progress record has
\* 0 <= questions_correct <= questions_attempted and an integer
\* proficiency_score between 0 and 100.
C18_ProgressRecordsInRange ==
    \A i \in DOMAIN learning_progress :
        LET row == learning_progress[i]
        IN  /\ 0 <= row.questions_correct
            /\ row.questions_correct <= row.questions_attempted
            /\ row.proficiency_score \in 0..100

\* a record updated by right and by wrong answers
C18_Witness ==
    /\ quiz_log # <<>>
    /\ \E i \in DOMAIN learning_progress :
          /\ 0 < learning_progress[i].questions_correct
          /\ learning_progress[i].questions_correct
                < learning_progress[i].questions_attempted
          /\ learning_progress[i].proficiency_score \in 1..99

----------------------------------------------------------------------------
(* Properties of concurrent progress updates *)

AllCallsDone == \A w \in Workers : workers[w].pc = "done"

\* the calls for (u, topic) whose update_progress returned True
UpdatesOf(u, topic) ==
    {w \in Workers : /\ workers[w].user_id = u
                     /\ workers[w].topic = topic
                     /\ workers[w].updated}

\* C15 (as claimed): for every interleaving of N concurrent updates of one
\* user and topic, C of them for correct answers, the record ends with
\* questions_attempted and questions_correct increased by exactly N and C: no
\* update is lost between the read and the write of update_progress.
C15_NoLostUpdate ==
    AllCallsDone =>
        \A u \in UserIds, topic \in QuizTopics :
            LET old == ProgressOf(workers[1].before, u, topic)
                new == ProgressOf(learning_progress, u, topic)
            IN  /\ new.questions_attempted
                      = old.questions_attempted + Cardinality(UpdatesOf(u, topic))
                /\ new.questions_correct
                      = old.questions_correct
                          + Cardinality({w \in UpdatesOf(u, topic) : workers[w].correct})

----------------------------------------------------------------------------
(* Properties of concurrent sessions *)

\* res is the result of orchestrate_learning_session(q, u, profile) run on its
\* own, the ports answering what `heard` says
IsSoloResult(res, q, u, profile, store_present, heard) ==
    \A r1 \in {generate_explanation(initial_state(q, u, profile), heard.explanation)} :
    \A r2 \in {IF r1.raised THEN r1
               ELSE generate_practice_questions(r1.val, heard.progress,
                                                heard.questions)} :
    \A r3 \in {IF r2.raised THEN r2
               ELSE generate_learning_path(r2.val, store_present, heard.search,
                                           heard.path)} :
    \A r4 \in {IF r3.raised THEN r3 ELSE create_session_summary(r3.val, heard.now)} :
        res = IF r4.raised
              THEN fallback_result(q, explain_concept(q, profile, heard.fallback).val,
                                   r4.val)
              ELSE r4.val

\* C16: two sessions running at once for different users share no mutable
\* session state: under every interleaving of their stages, the result each
\* call returns is the one it would return alone from its own query, user id,
\* profile and its own port responses.
C16_ConcurrentRunsEqualSoloRuns ==
    \A r \in UserIds :
        /\ runs[r].pc # "raised"
        /\ runs[r].pc = "done" =>
              IsSoloResult(runs[r].result, runs[r].query, r, runs[r].user_profile,
                           vector_store, runs[r].heard)

\* both calls have returned the full result, and each had run its first three
\* stages before either built its summary
C16_Witness ==
    /\ \A r \in UserIds : runs[r].pc = "done" /\ IsFull(runs[r].result)
    /\ {runs[r].heard.now : r \in UserIds} = {6, 7}

----------------------------------------------------------------------------
(* Properties of the stages of orchestrate_learning_session *)

\* C17: on the full path the summary's questions_generated is the number of
\* occurrences of the character "Q" in the questions text of the same result;
\* it counts characters, not parsed question records.
C17_QuestionCountIsLetterCount ==
    (Returns /\ IsFull(result)) =>
        result.session_summary.questions_generated
            = Cardinality({i \in 1..Len(result.questions) :
                              SubSeq(result.questions, i, i) = "Q"})

\* a full result whose count differs from the number of records parsed from
\* its questions text
C17_Witness ==
    /\ Returns
    /\ IsFull(result)
    /\ ReturnedCalls("questions") # {}
    /\ result.session_summary.questions_generated
          # Len(parse_questions(result.questions))

\* the records of a progress list whose topic is contained in the query,
\* letter case aside
MatchingRecords(progress, q) ==
    {k \in DOMAIN progress : Contains(Lower(q), Lower(progress[k].topic))}

\* C19: the proficiency level passed to question generation is the score of
\* the first record, in the order get_user_progress returned them, whose topic
\* matches the query by case-insensitive substring; it is 50 when no record
\* matches or the read failed; later matching records never override the first.
C19_ProficiencyOfFirstMatch ==
    \A i \in CallsOf("questions") :
        /\ i > 1
        /\ calls[i - 1].port = "get_user_progress"
        /\ LET progress == calls[i - 1].out
               matching == MatchingRecords(progress, query)
           IN  calls[i].vars.proficiency_level =
                   IF matching = {} THEN 50
                   ELSE progress[CHOOSE k \in matching : \A l \in matching : k <= l]
                            .proficiency_score

\* question generation called after a read that returned two matching records
\* with different scores
C19_Witness ==
    \E i \in CallsOf("questions") :
        \E k, l \in MatchingRecords(calls[i - 1].out, query) :
            /\ k < l
            /\ calls[i - 1].out[k].proficiency_score
                  # calls[i - 1].out[l].proficiency_score

\* the search call made right before call i, if any
SearchBefore(i) == IF i > 1 /\ calls[i - 1].port = "search_materials" THEN i - 1 ELSE 0

\* C20: when the material search fails, returns nothing or there is no index,
\* the resources passed to path recommendation are exactly the three
\* placeholder strings; otherwise there is one entry per search result, at most
\* 3 from the search and never more than 5 handed to the template.
C20_ResourcesOrPlaceholders ==
    \A i \in CallsOf("path") :
        LET s == SearchBefore(i)
            found == IF s = 0 THEN <<>> ELSE calls[s].out
            entries == [j \in DOMAIN found |->
                          (IF found[j].has_topic THEN found[j].topic ELSE "Resource")
                              \o ": " \o Take(found[j].page_content, 100) \o "..."]
        IN  /\ vector_store <=> s # 0
            /\ IF s = 0 \/ ~calls[s].ok \/ found = <<>>
               THEN calls[i].vars.available_resources = PlaceholderResources
               ELSE /\ Len(found) <= 3
                    /\ Len(entries) <= 5
                    /\ calls[i].vars.available_resources = Join("\n", entries)

\* path recommendation called after a search that failed
C20_Witness ==
    \E i \in CallsOf("path") : SearchBefore(i) # 0 /\ ~calls[SearchBefore(i)].ok

----------------------------------------------------------------------------
(* Properties of parse_questions: answers, explanations and blank lines *)

\* the positions in a block of the lines that start with a prefix
LinesWithPrefix(block, prefix) == {j \in DOMAIN block : StartsWith(block[j], prefix)}

\* the rest of a line after its leading prefix, trimmed
AfterPrefix(line, prefix) == Strip(Drop(line, Len(prefix)))

\* the explanation buffer of a block as claimed: the rest of the first
\* Explanation: line, then every non-empty line after it
ClaimedExplanationBuffer(block) ==
    LET first == CHOOSE j \in LinesWithPrefix(block, "Explanation:") :
                     \A l \in LinesWithPrefix(block, "Explanation:") : j <= l
    IN  <<AfterPrefix(block[first], "Explanation:")>>
            \o SelectSeq(SubSeq(block, first + 1, Len(block)), LAMBDA line : line # "")

\* C21 (as claimed): once an Explanation: line has started collection, every
\* later non-empty line up to the next question start or the end of input is
\* appended to the buffer, option-like lines, Answer: lines and further
\* Explanation: lines included; the record's explanation is the buffer joined
\* by single spaces.
C21_ExplanationCollectsEveryLine ==
    (ParseReturned /\ QuestionStartLines # <<>>) =>
        \A k \in DOMAIN parsed :
            LinesWithPrefix(BlockLines(k), "Explanation:") # {} =>
                parsed[k].explanation
                    = Join(" ", ClaimedExplanationBuffer(BlockLines(k)))

\* C22 (as claimed): an Answer: line met while a question is active sets the
\* record's answer to exactly the rest of the line after the leading prefix,
\* trimmed, later occurrences of "Answer:" in it kept; of several Answer: lines
\* in a block the last wins; an Answer: line with no active question changes
\* nothing.
C22_AnswerIsRestOfLastAnswerLine ==
    (ParseReturned /\ QuestionStartLines # <<>>) =>
        \A k \in DOMAIN parsed :
            LET answers == LinesWithPrefix(BlockLines(k), "Answer:")
            IN  parsed[k].answer =
                    IF answers = {} THEN ""
                    ELSE AfterPrefix(
                            BlockLines(k)[CHOOSE j \in answers : \A l \in answers : l <= j],
                            "Answer:")

\* the input without its blank lines
WithoutBlankLines(text) ==
    Join("\n", SelectSeq(SplitLines(text), LAMBDA line : Strip(line) # ""))

\* C23: blank (empty or whitespace-only) lines never start, end or alter
\* accumulation: the records returned for a text are those returned for the
\* text with every blank line deleted, so inserting or deleting blank lines
\* leaves the result unchanged.
C23_BlankLinesChangeNothing ==
    ParseReturned => parsed = parse_questions(WithoutBlankLines(questions_text))

\* a question, a blank line and the question's answer after it
C23_Witness ==
    /\ ParseReturned
    /\ Len(TrimmedLines) = 3
    /\ IsQuestionStart(TrimmedLines[1])
    /\ TrimmedLines[2] = ""
    /\ StartsWith(TrimmedLines[3], "Answer:")
    /\ parsed[1].answer # ""

----------------------------------------------------------------------------
(* Properties of the session state and of what a run persists *)

\* the step leaves every field of the session state but one as it was
ChangesOnly(field) ==
    /\ DOMAIN state' = DOMAIN state
    /\ \A f \in DOMAIN state \ {field} : state'[f] = state[f]

\* C24: the session state is filled strictly left to right: stage 1 changes
\* only explanation, stage 2 only questions, stage 3 only learning_path,
\* stage 4 only the summary; query, user id and profile are changed by no
\* stage, and no later step modifies a field an earlier stage has set.
C24_StagesFillLeftToRight ==
    [][/\ pc = "explainer" => ChangesOnly("explanation")
       /\ pc = "question_generator" => ChangesOnly("questions")
       /\ pc = "path_recommender" => ChangesOnly("learning_path")
       /\ pc = "summary" => ChangesOnly("session_summary")
       /\ pc \notin {"explainer", "question_generator", "path_recommender", "summary"}
             => state' = state
       /\ state'.query = query /\ state'.user_id = user_id
       /\ state'.user_profile = user_profile
       /\ <<query, user_id, user_profile>>' = <<query, user_id, user_profile>>]_vars

\* the four stages have run and each has filled its field
C24_Witness ==
    /\ executed = AllNodes
    /\ state.explanation # ""
    /\ state.questions # ""
    /\ state.learning_path # ""
    /\ state.session_summary # EmptyDict

\* C25 (as claimed): a run persists a session record if and only if it returns
\* the full result; a run that returns the degraded result has made no
\* save_learning_session call, and no degraded summary is ever stored.
C25_PersistsIffFullResult ==
    /\ Returns => (IsFull(result) <=> learning_sessions # <<>>)
    /\ (Returns /\ IsDegraded(result)) => CallsOf("save_learning_session") = {}
    /\ \A i \in DOMAIN learning_sessions :
          "error" \notin DOMAIN learning_sessions[i].session_data

----------------------------------------------------------------------------
(* Properties of the quiz store: one record per topic, results and progress *)

\* C26 (as claimed): after any sequence and any interleaving of
\* save_quiz_result / update_progress calls the store holds at most one
\* progress record for each (user id, topic) pair.
C26_OneRecordPerUserAndTopic ==
    \A i, j \in DOMAIN learning_progress :
        (/\ learning_progress[i].user_id = learning_progress[j].user_id
         /\ learning_progress[i].topic = learning_progress[j].topic) => i = j

\* the stored quiz results of (u, topic)
ResultsOf(u, topic) ==
    {i \in DOMAIN quiz_results : quiz_results[i].user_id = u /\ quiz_results[i].topic = topic}

\* C27 (as claimed): in every reachable store state, for each (user id, topic)
\* the progress record's questions_attempted is the number of stored quiz
\* results and questions_correct the number of those marked correct, also
\* when one of the two writes fails; save_quiz_result reports success only if
\* both writes happened.
C27_ResultsAndProgressAgree ==
    /\ \A u \in UserIds, topic \in QuizTopics :
          /\ ProgressOf(learning_progress, u, topic).questions_attempted
                = Cardinality(ResultsOf(u, topic))
          /\ ProgressOf(learning_progress, u, topic).questions_correct
                = Cardinality({i \in ResultsOf(u, topic) : quiz_results[i].is_correct = 1})
    /\ (quiz_log # <<>> /\ LastCheck.ret) => LastCheck.after # LastCheck.before

----------------------------------------------------------------------------
(* Properties of the answer check: questions without a reference answer *)

\* C28: when the reference answer is the empty string, which is what
\* parse_questions gives a question block without an Answer: line, the verdict
\* is true for every user answer, and the checked answer is recorded as correct.
C28_EmptyReferenceAcceptsEverything ==
    /\ parse_questions("Q1: What is X?\nB) an option")[1].answer = ""
    /\ (Judged /\ correct_answer = "") =>
          /\ verdict
          /\ \A i \in DOMAIN quiz_results : quiz_results[i].is_correct = 1

\* an answer with nothing in common with the question, stored as correct
C28_Witness ==
    /\ Judged
    /\ correct_answer = ""
    /\ user_answer = "xyz"
    /\ quiz_results # <<>>
    /\ quiz_results[1].user_answer = "xyz"
    /\ quiz_results[1].is_correct = 1

----------------------------------------------------------------------------
(* Properties of the browser session *)

\* the questions call of the last Start Learning Session fell back
QuestionsFellBack == calls # <<>> /\ calls[2].port = "questions" /\ calls[2].out.raised

\* C29: for every single-line query, the fallback questions text of stage 2 is
\* parsed into exactly three records, the questions Q1, Q2 and Q3 in that
\* order, each with no options, a non-empty answer and a non-empty
\* explanation, and never into the single synthetic record.
C29_FallbackParsesToThreeRecords ==
    QuestionsFellBack =>
        /\ session_state.current_questions = QuestionsFallback(query, calls[2].out.val)
        /\ Len(session_state.parsed_questions) = 3
        /\ \A k \in DOMAIN session_state.parsed_questions :
              /\ k <= 3 => StartsWith(session_state.parsed_questions[k].question,
                                      "Q" \o SubSeq("123", k, k) \o ":")
              /\ session_state.parsed_questions[k].options = <<>>
              /\ session_state.parsed_questions[k].answer # ""
              /\ session_state.parsed_questions[k].explanation # ""
        /\ session_state.parsed_questions # <<SyntheticQuestion>>

\* the Learn page shows an explanation and, under it, the parsed questions
OnDisplay ==
    /\ session_state.menu_selection = "Learn"
    /\ session_state.current_explanation # ""

\* C30: in every reachable state of the session the explanation and the parsed
\* questions shown on the Learn page were generated for the current topic, so
\* every quiz result is recorded under the topic its question was generated for.
C30_DisplayedContentBelongsToTopic ==
    /\ OnDisplay =>
          /\ \/ /\ session_state.current_topic = query
                /\ session_state.current_explanation = result.explanation
             \/ \E explanation \in SavedExplanations :
                   /\ session_state.current_topic = explanation.topic
                   /\ session_state.current_explanation = explanation.explanation
          /\ session_state.parsed_questions # <<>> => session_state.current_topic = query
    /\ quiz_log # <<>> => LastCheck.topic = LastCheck.query

====
